---- MODULE Spec2Model ----
(***************************************************************************)
(* The CSS selector builder of src/src/05-objects-tasks.js.                *)
(*                                                                         *)
(* The heap of CssSelectorBuilder objects is the sequence sel: the object  *)
(* with identity i is sel[i].  Every method is an operator from the        *)
(* receiver (and arguments) to the receiver after the call together with   *)
(* what the call threw or returned; the actions apply these operators to   *)
(* the heap.  JavaScript strings are TLA+ strings, + is \o.                *)
(***************************************************************************)
EXTENDS Integers, Sequences, FiniteSets, TLC

VARIABLES
    sel,    \* heap: sel[i] is the CssSelectorBuilder object with identity i
    log,    \* history: log[i] is the sequence of <<kind, value>> appends that succeeded on object i
    res,    \* the outcome of the last call: what it was, on which object, what it returned or threw
    objs,   \* heap of plain objects: what Rectangle() and fromJSON() returned
    origin  \* history: origin[i] is 0 for an object Rectangle() returned, else the object whose JSON was parsed

vars == <<sel, log, res, objs, origin>>

\* ---------------------------------------------------------------- bounds
MaxBuilt == 2        \* objects that may hold fragments
MaxFrags == 3        \* fragments recorded over all objects while no object holds a chain
MaxChainFrags == 2   \* fragments recorded over all objects once an object holds a chain
MaxCombined == 2     \* objects that may hold a chain
MaxChain == 6        \* entries of one selectorsToCombine array
MaxObjs == 2         \* plain objects on the heap

\* ---------------------------------------------------------------- inputs
Combinators == {" ", ">", "+", "~"}
\* the combinators the calls of the state machine pass
CallCombinators == {" ", "+"}
\* the values the calls pass: only an element name can make a rendering empty
Values(kind) == IF kind = "element" THEN {"", "a"} ELSE {"a"}

\* the widths and heights the calls pass
Sides == {-1, 0, 10, 20}

\* ---------------------------------------------------------------- class CssSelectorBuilder
validOrder == <<"element", "id", "class", "attr", "pseudoClass", "pseudoElement">>

Kinds == {validOrder[i] : i \in 1..Len(validOrder)}

NoError == "none"
DuplicateSelectorPart == "Element, id and pseudo-element should not occur more then one time inside the selector"
OrderViolation == "Selector parts should be arranged in the following order: element, id, class, attribute, pseudo-class, pseudo-element"

\* new CssSelectorBuilder()
Constructor ==
    [ value |-> "",
      selectorsToCombine |-> <<>>,
      selectorOccurances |-> [k \in Kinds |-> 0] ]

\* Array.prototype.indexOf on validOrder, 1-based
indexOf(selectorType) == CHOOSE i \in 1..Len(validOrder) : validOrder[i] = selectorType

\* handleNumberOfOccurances that throws only from the third occurrence on
handleNumberOfOccurances_allowsTwo(this, selectorType) ==
    IF this.selectorOccurances[selectorType] > 1
    THEN DuplicateSelectorPart
    ELSE NoError

\* what handleNumberOfOccurances throws
handleNumberOfOccurances(this, selectorType) ==
    IF this.selectorOccurances[selectorType] # 0
    THEN DuplicateSelectorPart
    ELSE NoError

\* checkSelectorsOrder whose slice starts at the kind itself
checkSelectorsOrder_fromOwnRank(this, selectorType) ==
    LET sliced == SubSeq(validOrder, indexOf(selectorType), Len(validOrder))
        occurs(type) == this.selectorOccurances[type] # 0
        nextSelectorOrder == SelectSeq(sliced, occurs)
    IN IF Len(nextSelectorOrder) # 0 THEN OrderViolation ELSE NoError

\* checkSelectorsOrder whose slice starts one kind too late
checkSelectorsOrder_skipsNext(this, selectorType) ==
    LET sliced == SubSeq(validOrder, indexOf(selectorType) + 2, Len(validOrder))
        occurs(type) == this.selectorOccurances[type] # 0
        nextSelectorOrder == SelectSeq(sliced, occurs)
    IN IF Len(nextSelectorOrder) # 0 THEN OrderViolation ELSE NoError

\* what checkSelectorsOrder throws
checkSelectorsOrder(this, selectorType) ==
    LET sliced == SubSeq(validOrder, indexOf(selectorType) + 1, Len(validOrder))
        occurs(type) == this.selectorOccurances[type] # 0
        nextSelectorOrder == SelectSeq(sliced, occurs)
    IN IF Len(nextSelectorOrder) # 0 THEN OrderViolation ELSE NoError

\* record that appends the text and leaves the count as it was
record_forgetsCount(this, selectorType, text) ==
    [this EXCEPT !.value = @ \o text]

\* the two statements that record a fragment: the count, then the text
record(this, selectorType, text) ==
    [this EXCEPT !.selectorOccurances[selectorType] = @ + 1,
                 !.value = @ \o text]

Throw(this, error) == [this |-> this, thrown |-> error]
Return(this) == [this |-> this, thrown |-> NoError]

\* element that extends the value before it runs the two checks
element_appendsFirst(this, value) ==
    LET after == [this EXCEPT !.value = @ \o value]
        occurances == handleNumberOfOccurances(this, "element")
        order == checkSelectorsOrder(this, "element")
    IN IF occurances # NoError THEN Throw(after, occurances)
       ELSE IF order # NoError THEN Throw(after, order)
       ELSE Return([after EXCEPT !.selectorOccurances["element"] = @ + 1])

element(this, value) ==
    LET occurances == handleNumberOfOccurances(this, "element")
        order == checkSelectorsOrder(this, "element")
    IN IF occurances # NoError THEN Throw(this, occurances)
       ELSE IF order # NoError THEN Throw(this, order)
       ELSE Return(record(this, "element", value))

\* id that runs the order check before the occurrence check
id_checksOrderFirst(this, value) ==
    LET occurances == handleNumberOfOccurances(this, "id")
        order == checkSelectorsOrder(this, "id")
    IN IF order # NoError THEN Throw(this, order)
       ELSE IF occurances # NoError THEN Throw(this, occurances)
       ELSE Return(record(this, "id", "#" \o value))

id(this, value) ==
    LET occurances == handleNumberOfOccurances(this, "id")
        order == checkSelectorsOrder(this, "id")
    IN IF occurances # NoError THEN Throw(this, occurances)
       ELSE IF order # NoError THEN Throw(this, order)
       ELSE Return(record(this, "id", "#" \o value))

\* class without the order check
class_withoutOrderCheck(this, value) ==
    Return(record(this, "class", "." \o value))

class(this, value) ==
    LET order == checkSelectorsOrder(this, "class")
    IN IF order # NoError THEN Throw(this, order)
       ELSE Return(record(this, "class", "." \o value))

attr(this, value) ==
    LET order == checkSelectorsOrder(this, "attr")
    IN IF order # NoError THEN Throw(this, order)
       ELSE Return(record(this, "attr", "[" \o value \o "]"))

pseudoClass(this, value) ==
    LET order == checkSelectorsOrder(this, "pseudoClass")
    IN IF order # NoError THEN Throw(this, order)
       ELSE Return(record(this, "pseudoClass", ":" \o value))

\* pseudoElement without the occurrence check
pseudoElement_withoutChecks(this, value) ==
    Return(record(this, "pseudoElement", "::" \o value))

pseudoElement(this, value) ==
    LET occurances == handleNumberOfOccurances(this, "pseudoElement")
    IN IF occurances # NoError THEN Throw(this, occurances)
       ELSE Return(record(this, "pseudoElement", "::" \o value))

\* this[kind](value)
invoke(kind, this, value) ==
    CASE kind = "element" -> element(this, value)
      [] kind = "id" -> id(this, value)
      [] kind = "class" -> class(this, value)
      [] kind = "attr" -> attr(this, value)
      [] kind = "pseudoClass" -> pseudoClass(this, value)
      [] kind = "pseudoElement" -> pseudoElement(this, value)

\* Array.prototype.join
RECURSIVE join(_, _)
join(items, separator) ==
    IF Len(items) = 0 THEN ""
    ELSE IF Len(items) = 1 THEN items[1]
    ELSE items[1] \o separator \o join(Tail(items), separator)

\* a string is truthy when it is not empty
truthy(item) == item # ""

\* stringify that drops the empty entries from the receiver's own array
stringify_filtersInPlace(this) ==
    LET kept == [this EXCEPT !.selectorsToCombine = SelectSeq(@, truthy)]
    IN [ this |-> kept,
         ret |-> IF Len(kept.selectorsToCombine) # 0
                 THEN join(kept.selectorsToCombine, " ")
                 ELSE kept.value ]

\* stringify that puts the receiver's own value in front of the chain
stringify_prependsValue(this) ==
    [ this |-> this,
      ret |-> IF Len(this.selectorsToCombine) # 0
              THEN join(SelectSeq(<<this.value>> \o this.selectorsToCombine, truthy), " ")
              ELSE this.value ]

\* stringify(): the receiver after the call and the string returned
stringify(this) ==
    [ this |-> this,
      ret |-> IF Len(this.selectorsToCombine) # 0
              THEN join(SelectSeq(this.selectorsToCombine, truthy), " ")
              ELSE this.value ]

\* combine that pushes the right operand before the left one
combine_swapsOperands(this, selector1, combinator, selector2) ==
    IF Len(this.selectorsToCombine) # 0
    THEN this
    ELSE [this EXCEPT !.selectorsToCombine =
              @ \o <<selector2.value, combinator, selector1.value>>
                \o selector2.selectorsToCombine]

\* combine that does not spread the chain of the right operand
combine_dropsNestedChain(this, selector1, combinator, selector2) ==
    IF Len(this.selectorsToCombine) # 0
    THEN this
    ELSE [this EXCEPT !.selectorsToCombine =
              @ \o <<selector1.value, combinator, selector2.value>>]

\* combine without the early return
combine_alwaysPushes(this, selector1, combinator, selector2) ==
    [this EXCEPT !.selectorsToCombine =
         @ \o <<selector1.value, combinator, selector2.value>>
           \o selector2.selectorsToCombine]

\* combine(): the receiver after the call, which is also what it returns
combine(this, selector1, combinator, selector2) ==
    IF Len(this.selectorsToCombine) # 0
    THEN this
    ELSE [this EXCEPT !.selectorsToCombine =
              @ \o <<selector1.value, combinator, selector2.value>>
                \o selector2.selectorsToCombine]

\* ---------------------------------------------------------------- the facade cssSelectorBuilder
\* a facade that keeps one builder and appends to it on every call
facadeAppend_sharesOneBuilder(heap, kind, value) ==
    IF Len(heap) = 0
    THEN Append(heap, invoke(kind, Constructor, value).this)
    ELSE [heap EXCEPT ![Len(heap)] = invoke(kind, @, value).this]

\* the heap after `new CssSelectorBuilder().<kind>(value)`: a further object
facadeAppend(heap, kind, value) ==
    Append(heap, invoke(kind, Constructor, value).this)

\* the heap after `new CssSelectorBuilder().combine(selector1, combinator, selector2)`
facadeCombine(heap, selector1, combinator, selector2) ==
    Append(heap, combine(Constructor, selector1, combinator, selector2))

\* ---------------------------------------------------------------- Rectangle, getJSON, fromJSON
\* JavaScript values: a number, a function with the variables it closed over, undefined
Number(n) == [type |-> "number", number |-> n, body |-> "", scope |-> [width |-> 0, height |-> 0]]
Function(body, scope) == [type |-> "function", number |-> 0, body |-> body, scope |-> scope]
Undefined == [type |-> "undefined", number |-> 0, body |-> "", scope |-> [width |-> 0, height |-> 0]]

Property(key, value) == [key |-> key, value |-> value]

\* an object: its own properties in insertion order, and its prototype;
\* proto is <<>> for Object.prototype and <<p>> for the object p
Object(own, proto) == [own |-> own, proto |-> proto]

TypeError == "TypeError: getArea is not a function"
NaN == "NaN"

\* Rectangle(width, height): getArea is an own property that closes over the two parameters
Rectangle(width, height) ==
    Object(<< Property("width", Number(width)),
              Property("height", Number(height)),
              Property("getArea", Function("width * height", [width |-> width, height |-> height])) >>,
           <<>>)

\* Rectangle.prototype: the object every function gets, holding constructor only
RectanglePrototype ==
    Object(<< Property("constructor", Function("Rectangle", [width |-> 0, height |-> 0])) >>, <<>>)

\* obj[key], looked up along the prototype chain
RECURSIVE Get(_, _)
Get(obj, key) ==
    LET hits == SelectSeq(obj.own, LAMBDA p : p.key = key)
    IN IF Len(hits) # 0 THEN hits[Len(hits)].value
       ELSE IF Len(obj.proto) = 0 THEN Undefined
       ELSE Get(obj.proto[1], key)

\* obj.getArea(): what the call throws and returns
getArea(obj) ==
    LET f == Get(obj, "getArea")
        w == Get(obj, "width")
        h == Get(obj, "height")
    IN IF f.type # "function" THEN [thrown |-> TypeError, ret |-> 0]
       ELSE IF f.body = "width * height"
       THEN [thrown |-> NoError, ret |-> f.scope.width * f.scope.height]
       ELSE IF w.type = "number" /\ h.type = "number"
       THEN [thrown |-> NoError, ret |-> w.number * h.number]
       ELSE [thrown |-> NoError, ret |-> NaN]

\* a JSON text is the sequence of its characters
Chars(key) ==
    CASE key = "width" -> <<"w", "i", "d", "t", "h">>
      [] key = "height" -> <<"h", "e", "i", "g", "h", "t">>
      [] key = "getArea" -> <<"g", "e", "t", "A", "r", "e", "a">>
      [] key = "constructor" -> <<"c", "o", "n", "s", "t", "r", "u", "c", "t", "o", "r">>
Keys == {"width", "height", "getArea", "constructor"}
Quote == "\""

DigitChar == <<"0", "1", "2", "3", "4", "5", "6", "7", "8", "9">>
DigitValue(c) == CHOOSE d \in 0..9 : DigitChar[d + 1] = c

\* the decimal digits of a natural number
RECURSIVE Digits(_)
Digits(n) ==
    IF n < 10 THEN <<DigitChar[n + 1]>>
    ELSE Digits(n \div 10) \o <<DigitChar[(n % 10) + 1]>>

\* JSON.stringify of an integer
formatNumber(n) == IF n < 0 THEN <<"-">> \o Digits(0 - n) ELSE Digits(n)

\* JSON.parse of the text of an integer
RECURSIVE parseDigits(_)
parseDigits(chars) ==
    IF Len(chars) = 0 THEN 0
    ELSE 10 * parseDigits(SubSeq(chars, 1, Len(chars) - 1)) + DigitValue(chars[Len(chars)])
parseNumber(chars) ==
    IF chars[1] = "-" THEN 0 - parseDigits(Tail(chars)) ELSE parseDigits(chars)

\* the pieces of a text between the occurrences of a separator
RECURSIVE Split(_, _)
Split(chars, separator) ==
    IF \A i \in 1..Len(chars) : chars[i] # separator THEN <<chars>>
    ELSE LET at == CHOOSE i \in 1..Len(chars) :
                       chars[i] = separator /\ \A j \in 1..(i - 1) : chars[j] # separator
         IN <<SubSeq(chars, 1, at - 1)>> \o Split(SubSeq(chars, at + 1, Len(chars)), separator)

\* Array.prototype.join on texts
RECURSIVE joinChars(_, _)
joinChars(items, separator) ==
    IF Len(items) = 0 THEN <<>>
    ELSE IF Len(items) = 1 THEN items[1]
    ELSE items[1] \o separator \o joinChars(Tail(items), separator)

\* JSON.stringify(obj): the own properties that hold a number, in insertion order;
\* a property that holds a function or undefined is left out
JSONstringify(obj) ==
    LET kept == SelectSeq(obj.own, LAMBDA p : p.value.type = "number")
        member(p) == <<Quote>> \o Chars(p.key) \o <<Quote, ":">> \o formatNumber(p.value.number)
    IN <<"{">> \o joinChars([i \in 1..Len(kept) |-> member(kept[i])], <<",">>) \o <<"}">>

\* JSON.parse(json) of the text of an object whose members are integers:
\* a fresh object under Object.prototype
JSONparse(json) ==
    LET inner == SubSeq(json, 2, Len(json) - 1)
        members == IF Len(inner) = 0 THEN <<>> ELSE Split(inner, ",")
        parsed(member) ==
            LET parts == Split(member, ":")
                name == SubSeq(parts[1], 2, Len(parts[1]) - 1)
            IN Property(CHOOSE key \in Keys : Chars(key) = name, Number(parseNumber(parts[2])))
    IN Object([i \in 1..Len(members) |-> parsed(members[i])], <<>>)

getJSON(obj) == JSONstringify(obj)

\* fromJSON that returns the parsed object without the prototype
fromJSON_keepsObjectPrototype(proto, json) == JSONparse(json)

fromJSON(proto, json) ==
    LET parsedObject == JSONparse(json)
    IN [parsedObject EXCEPT !.proto = <<proto>>]

\* a shape a caller writes for fromJSON: getArea reads the receiver's width and height
AreaShape ==
    Object(<< Property("getArea", Function("this.width * this.height", [width |-> 0, height |-> 0])) >>, <<>>)

\* the shapes the calls of the state machine pass to fromJSON
Shapes == {RectanglePrototype, AreaShape, Rectangle(1, 1)} \cup {objs[i] : i \in 1..Len(objs)}

\* ---------------------------------------------------------------- state machine
Objects == 1..Len(sel)

RECURSIVE Sum(_)
Sum(s) == IF Len(s) = 0 THEN 0 ELSE s[1] + Sum(Tail(s))

\* fragments recorded on one object, and over the heap
Recorded(this) ==
    this.selectorOccurances["element"] + this.selectorOccurances["id"]
    + this.selectorOccurances["class"] + this.selectorOccurances["attr"]
    + this.selectorOccurances["pseudoClass"] + this.selectorOccurances["pseudoElement"]
TotalRecorded == Sum([i \in 1..Len(sel) |-> Recorded(sel[i])])

Combined(this) == Len(this.selectorsToCombine) # 0
NumCombined == Cardinality({i \in Objects : Combined(sel[i])})
NumBuilt == Cardinality({i \in Objects : Recorded(sel[i]) > 0})
FragCap == IF \E i \in Objects : Combined(sel[i]) THEN MaxChainFrags ELSE MaxFrags

Result(via, call, target, thrown, ret) ==
    [via |-> via, call |-> call, id |-> target, thrown |-> thrown, ret |-> ret]

Init ==
    /\ sel = <<>>
    /\ log = <<>>
    /\ res = Result("none", "none", 0, NoError, "")
    /\ objs = <<>>
    /\ origin = <<>>

\* cssSelectorBuilder.<kind>(value)
FacadeCall(kind, value) ==
    /\ NumBuilt < MaxBuilt
    /\ TotalRecorded < FragCap
    /\ sel' = facadeAppend(sel, kind, value)
    /\ log' = Append(log, <<<<kind, value>>>>)
    /\ res' = Result("facade", kind, Len(sel) + 1, NoError, "")
    /\ UNCHANGED <<objs, origin>>

FacadeElement(value) == FacadeCall("element", value)
FacadeId(value) == FacadeCall("id", value)
FacadeClass(value) == FacadeCall("class", value)
FacadeAttr(value) == FacadeCall("attr", value)
FacadePseudoClass(value) == FacadeCall("pseudoClass", value)
FacadePseudoElement(value) == FacadeCall("pseudoElement", value)

\* a facade whose combine makes the left operand the receiver and returns it
FacadeCombine_intoLeftOperand(l, combinator, r) ==
    /\ NumCombined < MaxCombined
    /\ TotalRecorded <= MaxChainFrags
    /\ Len(sel[r].selectorsToCombine) + 3 <= MaxChain
    /\ sel' = [sel EXCEPT ![l] = combine(@, sel[l], combinator, sel[r])]
    /\ UNCHANGED log
    /\ res' = Result("facade", "combine", l, NoError, "")
    /\ UNCHANGED <<objs, origin>>

\* cssSelectorBuilder.combine(sel[l], combinator, sel[r])
FacadeCombine(l, combinator, r) ==
    /\ NumCombined < MaxCombined
    /\ TotalRecorded <= MaxChainFrags
    /\ Len(sel[r].selectorsToCombine) + 3 <= MaxChain
    /\ sel' = facadeCombine(sel, sel[l], combinator, sel[r])
    /\ log' = Append(log, <<>>)
    /\ res' = Result("facade", "combine", Len(sel) + 1, NoError, "")
    /\ UNCHANGED <<objs, origin>>

\* sel[t].<kind>(value)
MethodCall(t, kind, value) ==
    LET r == invoke(kind, sel[t], value)
    IN /\ r.thrown # NoError \/ TotalRecorded < FragCap
       /\ sel' = [sel EXCEPT ![t] = r.this]
       /\ log' = IF r.thrown = NoError
                 THEN [log EXCEPT ![t] = Append(@, <<kind, value>>)]
                 ELSE log
       /\ res' = Result("method", kind, t, r.thrown, "")
       /\ UNCHANGED <<objs, origin>>

Element(t, value) == MethodCall(t, "element", value)
Id(t, value) == MethodCall(t, "id", value)
Class(t, value) == MethodCall(t, "class", value)
Attr(t, value) == MethodCall(t, "attr", value)
PseudoClass(t, value) == MethodCall(t, "pseudoClass", value)
PseudoElement(t, value) == MethodCall(t, "pseudoElement", value)

\* sel[t].combine(sel[l], combinator, sel[r])
Combine(t, l, combinator, r) ==
    /\ \/ Combined(sel[t])
       \/ /\ NumCombined < MaxCombined
          /\ TotalRecorded <= MaxChainFrags
          /\ Len(sel[r].selectorsToCombine) + 3 <= MaxChain
    /\ sel' = [sel EXCEPT ![t] = combine(sel[t], sel[l], combinator, sel[r])]
    /\ UNCHANGED log
    /\ res' = Result("method", "combine", t, NoError, "")
    /\ UNCHANGED <<objs, origin>>

\* sel[t].stringify()
Stringify(t) ==
    LET r == stringify(sel[t])
    IN /\ sel' = [sel EXCEPT ![t] = r.this]
       /\ UNCHANGED log
       /\ res' = Result("method", "stringify", t, NoError, r.ret)
       /\ UNCHANGED <<objs, origin>>

\* objs[Len(objs) + 1] = Rectangle(width, height)
NewRectangle(width, height) ==
    /\ Len(objs) < MaxObjs
    /\ objs' = Append(objs, Rectangle(width, height))
    /\ origin' = Append(origin, 0)
    /\ res' = Result("function", "Rectangle", Len(objs) + 1, NoError, "")
    /\ UNCHANGED <<sel, log>>

\* getJSON(objs[i])
GetJSON(i) ==
    /\ res' = Result("function", "getJSON", i, NoError, getJSON(objs[i]))
    /\ UNCHANGED <<sel, log, objs, origin>>

\* objs[Len(objs) + 1] = fromJSON(shape, json), json being the text getJSON just returned
FromJSON(shape) ==
    /\ res.call = "getJSON"
    /\ Len(objs) < MaxObjs
    /\ objs' = Append(objs, fromJSON(shape, res.ret))
    /\ origin' = Append(origin, res.id)
    /\ res' = Result("function", "fromJSON", Len(objs) + 1, NoError, "")
    /\ UNCHANGED <<sel, log>>

\* objs[i].getArea()
GetArea(i) ==
    LET r == getArea(objs[i])
    IN /\ res' = Result("method", "getArea", i, r.thrown, r.ret)
       /\ UNCHANGED <<sel, log, objs, origin>>

\* rectangles and their JSON texts
NextJSON ==
    \/ \E width \in Sides, height \in Sides : NewRectangle(width, height)
    \/ \E i \in 1..Len(objs) : GetJSON(i)
    \/ \E shape \in Shapes : FromJSON(shape)
    \/ \E i \in 1..Len(objs) : GetArea(i)

SpecJSON == Init /\ [][NextJSON]_vars

\* the append methods of every kind, on selectors that are never combined
NextAppend ==
    \/ \E value \in Values("element") : FacadeElement(value)
    \/ \E value \in Values("id") : FacadeId(value)
    \/ \E value \in Values("class") : FacadeClass(value)
    \/ \E value \in Values("attr") : FacadeAttr(value)
    \/ \E value \in Values("pseudoClass") : FacadePseudoClass(value)
    \/ \E value \in Values("pseudoElement") : FacadePseudoElement(value)
    \/ \E t \in Objects, value \in Values("element") : Element(t, value)
    \/ \E t \in Objects, value \in Values("id") : Id(t, value)
    \/ \E t \in Objects, value \in Values("class") : Class(t, value)
    \/ \E t \in Objects, value \in Values("attr") : Attr(t, value)
    \/ \E t \in Objects, value \in Values("pseudoClass") : PseudoClass(t, value)
    \/ \E t \in Objects, value \in Values("pseudoElement") : PseudoElement(t, value)
    \/ \E t \in Objects : Stringify(t)

SpecAppend == Init /\ [][NextAppend]_vars

\* combine, over selectors built from element and id fragments
Next ==
    \/ \E value \in Values("element") : FacadeElement(value)
    \/ \E value \in Values("id") : FacadeId(value)
    \/ \E l \in Objects, r \in Objects, combinator \in CallCombinators : FacadeCombine(l, combinator, r)
    \/ \E t \in Objects, value \in Values("element") : Element(t, value)
    \/ \E t \in Objects, value \in Values("id") : Id(t, value)
    \/ \E t \in Objects, l \in Objects, r \in Objects, combinator \in CallCombinators : Combine(t, l, combinator, r)
    \/ \E t \in Objects : Stringify(t)

Spec == Init /\ [][Next]_vars

TypeOK ==
    /\ Len(sel) <= MaxBuilt + MaxCombined
    /\ Len(log) = Len(sel)
    /\ Len(objs) <= MaxObjs
    /\ Len(origin) = Len(objs)

\* ---------------------------------------------------------------- the grammar the claims state
\* rank of a kind in element < id < class < attr < pseudoClass < pseudoElement
Rank(kind) ==
    CASE kind = "element" -> 1
      [] kind = "id" -> 2
      [] kind = "class" -> 3
      [] kind = "attr" -> 4
      [] kind = "pseudoClass" -> 5
      [] kind = "pseudoElement" -> 6

\* the kinds that may occur once only
Capped == {"element", "id", "pseudoElement"}

\* canonical rendering of one fragment
Rendering(kind, value) ==
    CASE kind = "element" -> value
      [] kind = "id" -> "#" \o value
      [] kind = "class" -> "." \o value
      [] kind = "attr" -> "[" \o value \o "]"
      [] kind = "pseudoClass" -> ":" \o value
      [] kind = "pseudoElement" -> "::" \o value

\* concatenation, in call order, of the renderings of a sequence of <<kind, value>> calls
RECURSIVE Concatenation(_)
Concatenation(calls) ==
    IF Len(calls) = 0 THEN ""
    ELSE Rendering(calls[1][1], calls[1][2]) \o Concatenation(Tail(calls))

KindsOf(calls) == [i \in 1..Len(calls) |-> calls[i][1]]
Occurs(kind, calls) == \E i \in 1..Len(calls) : calls[i][1] = kind
HigherPresent(kind, calls) == \E i \in 1..Len(calls) : Rank(calls[i][1]) > Rank(kind)

\* what an append of a kind does on a selector with the given history of appends
ExpectedOutcome(kind, calls) ==
    IF kind \in Capped /\ Occurs(kind, calls) THEN DuplicateSelectorPart
    ELSE IF HigherPresent(kind, calls) THEN OrderViolation
    ELSE NoError

\* kinds in non-decreasing rank order, with element, id and pseudoElement at most once
ValidSequence(kinds) ==
    /\ \A i \in 1..(Len(kinds) - 1) : Rank(kinds[i]) <= Rank(kinds[i + 1])
    /\ \A i \in 1..Len(kinds) : \A j \in (i + 1)..Len(kinds) :
         kinds[i] = kinds[j] => kinds[i] \notin Capped

\* ---------------------------------------------------------------- claims

\* C1: every sequence of appends in non-decreasing rank order with element, id and
\* pseudoElement at most once succeeds call by call, and stringify() returns the
\* concatenation, in call order, of the canonical renderings of the fragments.
C1_AscendingAppendsRenderInOrder ==
    \A t \in Objects :
        LET kinds == KindsOf(log[t])
            rendered == Concatenation(log[t])
        IN (~Combined(sel[t]) /\ ValidSequence(kinds))
           => /\ stringify(sel[t]).ret = rendered
              /\ (res.id = t /\ res.call = "stringify") => res.ret = rendered
              /\ \A kind \in Kinds : \A value \in Values(kind) :
                   ValidSequence(Append(kinds, kind))
                   => LET r == invoke(kind, sel[t], value)
                      IN /\ r.thrown = NoError
                         /\ stringify(r.this).ret = rendered \o Rendering(kind, value)

\* three appends, id then class twice, and the string stringify() returned for them
C1_Witness ==
    \E t \in Objects :
        /\ log[t] = << <<"id", "a">>, <<"class", "a">>, <<"class", "a">> >>
        /\ res.call = "stringify" /\ res.id = t /\ res.ret = "#a.a.a"

\* C2 as stated: an append of kind K on a selector that already holds a kind of
\* strictly higher rank fails with OrderViolation.
C2_HigherRankAlwaysOrderViolation ==
    (res.via = "method" /\ res.call \in Kinds /\ HigherPresent(res.call, log[res.id]))
        => res.thrown = OrderViolation

\* C2 amended: such an append fails; with OrderViolation, unless K is element or id
\* and K itself already occurred on the selector, when DuplicateSelectorPart is raised.
C2_HigherRankFails ==
    LET expected(kind, calls) ==
            IF kind \in {"element", "id"} /\ Occurs(kind, calls)
            THEN DuplicateSelectorPart
            ELSE OrderViolation
    IN /\ \A t \in Objects : \A kind \in Kinds : \A value \in Values(kind) :
            HigherPresent(kind, log[t])
               => invoke(kind, sel[t], value).thrown = expected(kind, log[t])
       /\ (res.via = "method" /\ res.call \in Kinds /\ HigherPresent(res.call, log[res.id]))
            => res.thrown = expected(res.call, log[res.id])

\* element called after class on a selector without an element: OrderViolation
C2_Witness ==
    /\ res.via = "method" /\ res.call = "element" /\ res.thrown = OrderViolation
    /\ log[res.id] = << <<"class", "a">> >>

\* C3: a second element, id or pseudoElement on a selector fails with
\* DuplicateSelectorPart whatever was appended in between; class, attr and
\* pseudoClass never fail with that error.
C3_DuplicateOnlyForCappedKinds ==
    /\ \A t \in Objects : \A kind \in Kinds : \A value \in Values(kind) :
         /\ (kind \in Capped /\ Occurs(kind, log[t]))
               => invoke(kind, sel[t], value).thrown = DuplicateSelectorPart
         /\ kind \notin Capped
               => invoke(kind, sel[t], value).thrown # DuplicateSelectorPart
    /\ (res.via = "method" /\ res.call \in Capped /\ res.thrown # NoError
          /\ Occurs(res.call, log[res.id]))
         => res.thrown = DuplicateSelectorPart
    /\ (res.call \in Kinds \ Capped) => res.thrown # DuplicateSelectorPart

\* a second id, after a class was appended in between
C3_Witness ==
    /\ res.via = "method" /\ res.call = "id" /\ res.thrown = DuplicateSelectorPart
    /\ log[res.id] = << <<"id", "a">>, <<"class", "a">> >>

\* C4: an append that fails leaves value, occurrence counts and chain of the
\* selector as they were, so stringify() returns the same string and every later
\* append does what it does on a selector that saw the successful calls only.
C4_FailedAppendChangesNothing ==
    /\ \A t \in Objects : \A kind \in Kinds : \A value \in Values(kind) :
         LET r == invoke(kind, sel[t], value)
         IN r.thrown # NoError
              => /\ r.this.value = sel[t].value
                 /\ r.this.selectorOccurances = sel[t].selectorOccurances
                 /\ r.this.selectorsToCombine = sel[t].selectorsToCombine
                 /\ stringify(r.this).ret = stringify(sel[t]).ret
    /\ (res.via = "method" /\ res.call \in Kinds /\ res.thrown # NoError)
         => /\ sel[res.id].value = Concatenation(log[res.id])
            /\ \A kind \in Kinds : \A value \in Values(kind) :
                 invoke(kind, sel[res.id], value).thrown = ExpectedOutcome(kind, log[res.id])

\* a failed append on a selector that holds two fragments
C4_Witness ==
    /\ res.via = "method" /\ res.call \in Kinds /\ res.thrown # NoError
    /\ Len(log[res.id]) = 2
    /\ sel[res.id].value = Concatenation(log[res.id])

\* the selector a facade combine returned, with nothing appended to it since
FacadeCombined(t) == Combined(sel[t]) /\ log[t] = <<>>

\* what cssSelectorBuilder.combine(sel[l], combinator, sel[r]).stringify() returns
CombinedString(l, combinator, r) ==
    LET heap == facadeCombine(sel, sel[l], combinator, sel[r])
    IN stringify(heap[Len(heap)]).ret

\* C5: the facade's combine of two non-combined selectors with non-empty
\* renderings L and R renders as L, space, combinator, space, R.
C5_CombineOfTwoPlainSelectors ==
    \A l \in Objects : \A r \in Objects : \A combinator \in Combinators :
        ( /\ ~Combined(sel[l]) /\ ~Combined(sel[r])
          /\ stringify(sel[l]).ret # "" /\ stringify(sel[r]).ret # "" )
        => CombinedString(l, combinator, r)
             = stringify(sel[l]).ret \o " " \o combinator \o " " \o stringify(sel[r]).ret

\* combine(element('a').id('a'), '+', the same) was stringified to 'a#a + a#a'
C5_Witness ==
    \E t \in Objects :
        /\ FacadeCombined(t)
        /\ sel[t].selectorsToCombine = <<"a#a", "+", "a#a">>
        /\ res.call = "stringify" /\ res.id = t /\ res.ret = "a#a + a#a"

\* C6 as stated: for every non-combined A and every B a facade combine returned,
\* combine(A, c, B) renders as A's string, space, c, space, B's string.
C6_RightNestedCombineFlattens ==
    \A a \in Objects : \A b \in Objects : \A combinator \in Combinators :
        (~Combined(sel[a]) /\ FacadeCombined(b))
        => CombinedString(a, combinator, b)
             = stringify(sel[a]).ret \o " " \o combinator \o " " \o stringify(sel[b]).ret

\* C6 amended: the same, for every A whose rendering is not empty.
C6_RightNestedCombineFlattensNonEmpty ==
    \A a \in Objects : \A b \in Objects : \A combinator \in Combinators :
        (~Combined(sel[a]) /\ stringify(sel[a]).ret # "" /\ FacadeCombined(b))
        => CombinedString(a, combinator, b)
             = stringify(sel[a]).ret \o " " \o combinator \o " " \o stringify(sel[b]).ret

\* combine(element('a'), '+', combine(element('a'), ' ', id('a'))) was stringified
C6_Witness ==
    \E t \in Objects :
        /\ FacadeCombined(t)
        /\ sel[t].selectorsToCombine = <<"a", "+", "", "a", " ", "#a">>
        /\ res.call = "stringify" /\ res.id = t /\ res.ret = "a + a   #a"

\* C7: for a left operand that a facade combine returned and any right operand,
\* combine(left, c, right) renders as left's string, space, c, space, right's string.
C7_LeftChainIsKept ==
    \A l \in Objects : \A r \in Objects : \A combinator \in Combinators :
        FacadeCombined(l)
        => CombinedString(l, combinator, r)
             = stringify(sel[l]).ret \o " " \o combinator \o " " \o stringify(sel[r]).ret

\* C8: on a selector that holds a chain, combine with any operands and combinator
\* changes nothing and returns the receiver, so stringify() keeps its string; this
\* includes a chain whose operands rendered to empty strings.
C8_FirstCombineWins ==
    \A t \in Objects : \A l \in Objects : \A r \in Objects : \A combinator \in Combinators :
        Combined(sel[t])
        => /\ combine(sel[t], sel[l], combinator, sel[r]) = sel[t]
           /\ stringify(combine(sel[t], sel[l], combinator, sel[r])).ret = stringify(sel[t]).ret

\* a later combine was called on combine(element(''), '+', element(''))
C8_Witness ==
    /\ res.via = "method" /\ res.call = "combine"
    /\ FacadeCombined(res.id)
    /\ sel[res.id].selectorsToCombine = <<"", "+", "">>

\* C9: stringify() leaves value, counts and chain of a plain or combined selector
\* as they were, so a further call returns the string the last call returned.
C9_StringifyIsPureRead ==
    /\ \A t \in Objects :
         /\ stringify(sel[t]).this = sel[t]
         /\ stringify(stringify(sel[t]).this).ret = stringify(sel[t]).ret
    /\ res.call = "stringify" => stringify(sel[res.id]).ret = res.ret

\* stringify() was called on a combined selector whose chain holds an empty entry
C9_Witness ==
    /\ res.call = "stringify" /\ Combined(sel[res.id])
    /\ \E i \in 1..Len(sel[res.id].selectorsToCombine) : sel[res.id].selectorsToCombine[i] = ""

\* C10, in every state: a facade call of any kind would add one selector holding
\* that fragment alone and leave the others alone, and whether an append on a
\* selector succeeds depends on the appends made on that selector only
C10_State ==
    /\ \A kind \in Kinds : \A value \in Values(kind) :
         LET heap == facadeAppend(sel, kind, value)
         IN /\ Len(heap) = Len(sel) + 1
            /\ \A u \in Objects : heap[u] = sel[u]
            /\ heap[Len(heap)].selectorOccurances = [k \in Kinds |-> IF k = kind THEN 1 ELSE 0]
            /\ heap[Len(heap)].value = Rendering(kind, value)
            /\ heap[Len(heap)].selectorsToCombine = <<>>
    /\ \A u \in Objects : \A kind \in Kinds : \A value \in Values(kind) :
         invoke(kind, sel[u], value).thrown = ExpectedOutcome(kind, log[u])

\* C10, in every step: a facade call adds one selector and a method call keeps
\* their number; no call changes a selector other than the one it returns
C10_Step ==
    /\ res'.via = "facade"
         => /\ Len(sel') = Len(sel) + 1
            /\ res'.id = Len(sel')
            /\ sel'[Len(sel')].selectorOccurances
                  = [k \in Kinds |-> IF k = res'.call THEN 1 ELSE 0]
            /\ res'.call \in Kinds => sel'[Len(sel')].selectorsToCombine = <<>>
            /\ res'.call = "combine" => sel'[Len(sel')].value = ""
    /\ res'.via = "method" => Len(sel') = Len(sel)
    /\ \A u \in Objects : u # res'.id => sel'[u] = sel[u]

\* C10: every facade call returns a further selector with counts, value and chain
\* of its own, and a call on one selector leaves every other selector, and the
\* outcome of every append on it, as it was.
C10_FacadeSelectorsAreIndependent == [](C10_State) /\ [][C10_Step]_vars

\* id() was called through the facade twice and both selectors hold their id
C10_Witness ==
    /\ Len(sel) = 2
    /\ log = << << <<"id", "a">> >>, << <<"id", "a">> >> >>
    /\ res.via = "facade" /\ res.call = "id" /\ res.id = 2
    /\ sel[1].selectorOccurances["id"] = 1 /\ sel[2].selectorOccurances["id"] = 1

\* the objects fromJSON returned for the JSON text of an object Rectangle() returned
RoundTripped == {i \in 1..Len(objs) : origin[i] # 0 /\ origin[origin[i]] = 0}

Count(kind, calls) == Cardinality({i \in 1..Len(calls) : calls[i][1] = kind})

\* C12: in every reachable selector, after any successful and failed appends, the
\* fragments recorded in its value are in non-decreasing rank order
\* (element < id < class < attr < pseudoClass < pseudoElement).
C12_FragmentsInRankOrder ==
    \A t \in Objects :
        /\ sel[t].value = Concatenation(log[t])
        /\ \A i \in 1..Len(log[t]) : \A j \in (i + 1)..Len(log[t]) :
             Rank(log[t][i][1]) <= Rank(log[t][j][1])

\* a selector holds element, pseudoClass, pseudoElement and just refused an id
C12_Witness ==
    /\ res.via = "method" /\ res.call = "id" /\ res.thrown = OrderViolation
    /\ KindsOf(log[res.id]) = <<"element", "pseudoClass", "pseudoElement">>
    /\ sel[res.id].value = "a:a::a"

\* C13: in every reachable selector the counts of element, id and pseudoElement
\* are 0 or 1, and the count of every kind is the number of fragments of that
\* kind in the selector's value.
C13_CountsMatchFragments ==
    \A t \in Objects :
        /\ sel[t].value = Concatenation(log[t])
        /\ \A kind \in Kinds : sel[t].selectorOccurances[kind] = Count(kind, log[t])
        /\ \A kind \in Capped : sel[t].selectorOccurances[kind] \in {0, 1}

\* a selector that holds one id and two classes, after a second id was refused
C13_Witness ==
    /\ res.via = "method" /\ res.call = "id" /\ res.thrown = DuplicateSelectorPart
    /\ sel[res.id].value = "#a.a.a"
    /\ sel[res.id].selectorOccurances["id"] = 1
    /\ sel[res.id].selectorOccurances["class"] = 2

\* pseudoElement as the specification states it: both checks, then the fragment
pseudoElementSpecified(this, value) ==
    LET occurances == handleNumberOfOccurances(this, "pseudoElement")
        order == checkSelectorsOrder(this, "pseudoElement")
    IN IF occurances # NoError THEN Throw(this, occurances)
       ELSE IF order # NoError THEN Throw(this, order)
       ELSE Return(record(this, "pseudoElement", "::" \o value))

\* C14: pseudoElement, which makes no order check, does what the algorithm with
\* the order check does: it succeeds exactly when the selector holds no
\* pseudoElement yet and never raises OrderViolation, whatever else is present.
C14_PseudoElementNeedsNoOrderCheck ==
    /\ \A t \in Objects : \A value \in Values("pseudoElement") :
         LET r == pseudoElement(sel[t], value)
         IN /\ r = pseudoElementSpecified(sel[t], value)
            /\ r.thrown = NoError <=> ~Occurs("pseudoElement", log[t])
            /\ r.thrown # OrderViolation
    /\ res.call = "pseudoElement" => res.thrown \in {NoError, DuplicateSelectorPart}
    /\ (res.call = "pseudoElement" /\ res.thrown = DuplicateSelectorPart)
         => Occurs("pseudoElement", log[res.id])
    /\ (res.call = "pseudoElement" /\ res.thrown = NoError)
         => Count("pseudoElement", log[res.id]) = 1

\* pseudoElement succeeded on a selector that held an id and a pseudoClass
C14_Witness ==
    /\ res.via = "method" /\ res.call = "pseudoElement" /\ res.thrown = NoError
    /\ KindsOf(log[res.id]) = <<"id", "pseudoClass", "pseudoElement">>

\* the entries of a chain that stringify() renders
Rendered(this) == SelectSeq(this.selectorsToCombine, truthy)

\* selector and combinator entries alternate, from a selector to a selector
Alternates(entries) ==
    /\ Len(entries) % 2 = 1
    /\ \A i \in 1..Len(entries) : (entries[i] \in Combinators) <=> (i % 2 = 0)

\* no element with an empty name was ever appended
NoEmptyName == \A t \in Objects : \A i \in 1..Len(log[t]) : Rendering(log[t][i][1], log[t][i][2]) # ""

\* C15: in every selector reachable by append and combine calls, through the
\* facade or on instances, with plain or combined operands (here: of fragments
\* that render non-empty), the rendered chain of a combined selector alternates
\* selector and combinator entries, begins and ends with a selector, and
\* stringify() joins those entries with single spaces.
C15_ChainAlternates ==
    NoEmptyName
    => \A t \in Objects :
           Combined(sel[t])
           => /\ Alternates(Rendered(sel[t]))
              /\ stringify(sel[t]).ret = join(Rendered(sel[t]), " ")

\* C16, in every state: the facade's combine of any two selectors leaves every
\* selector of the heap, the operands among them, as it was
C16_State ==
    \A l \in Objects : \A r \in Objects : \A combinator \in Combinators :
        LET heap == facadeCombine(sel, sel[l], combinator, sel[r])
        IN /\ Len(heap) = Len(sel) + 1
           /\ \A u \in Objects : heap[u] = sel[u]
           /\ combine(Constructor, sel[l], combinator, sel[r]).selectorsToCombine
                = <<sel[l].value, combinator, sel[r].value>> \o sel[r].selectorsToCombine

\* C16, in every step: a combine changes no selector but the one it returns, and
\* a call on another selector, an operand or not, leaves the string of a combined
\* selector as it was
C16_Step ==
    /\ (res'.call = "combine" /\ res'.via = "facade")
         => \A u \in Objects : sel'[u] = sel[u]
    /\ (res'.call = "combine" /\ res'.via = "method")
         => \A u \in Objects : u # res'.id => sel'[u] = sel[u]
    /\ \A u \in Objects :
         (Combined(sel[u]) /\ res'.id # u)
         => stringify(sel'[u]).ret = stringify(sel[u]).ret

\* C16: combine(left, c, right) leaves value, counts and chain of left and right
\* as they were, and fragments appended to, or combine calls made on, left or
\* right afterwards do not change the string of the combined selector.
C16_CombineSnapshotsOperands == [](C16_State) /\ [][C16_Step]_vars

\* combine(e, '+', e) for e = element('a'), then e.id('a'): e renders 'a#a' and
\* the combined selector was stringified to 'a + a'
C16_Witness ==
    /\ Len(sel) >= 2
    /\ log[1] = << <<"element", "a">>, <<"id", "a">> >>
    /\ sel[1].value = "a#a" /\ ~Combined(sel[1])
    /\ FacadeCombined(2) /\ sel[2].selectorsToCombine = <<"a", "+", "a">>
    /\ res.call = "stringify" /\ res.id = 2 /\ res.ret = "a + a"

\* C17: on a selector that holds a chain, stringify() returns the chain joined by
\* spaces and nothing of the selector's own value, whether recorded before the
\* combine or after; an append still succeeds or fails by the duplicate and order
\* rules and updates value and counts, and leaves chain and string as they were.
C17_CombinedRendersChainOnly ==
    \A t \in Objects :
        Combined(sel[t])
        => /\ stringify(sel[t]).ret = join(Rendered(sel[t]), " ")
           /\ stringify(sel[t]).ret
                = stringify([Constructor EXCEPT !.selectorsToCombine = sel[t].selectorsToCombine]).ret
           /\ sel[t].value = Concatenation(log[t])
           /\ \A kind \in Kinds : \A value \in Values(kind) :
                LET r == invoke(kind, sel[t], value)
                IN /\ r.thrown = ExpectedOutcome(kind, log[t])
                   /\ r.thrown = NoError
                        => /\ r.this.value = sel[t].value \o Rendering(kind, value)
                           /\ r.this.selectorOccurances[kind] = sel[t].selectorOccurances[kind] + 1
                   /\ r.this.selectorsToCombine = sel[t].selectorsToCombine
                   /\ stringify(r.this).ret = stringify(sel[t]).ret

\* id('a') was appended to combine(element('a'), '+', element('a')): its value is
\* '#a' and stringify() returned 'a + a'
C17_Witness ==
    \E t \in Objects :
        /\ Combined(sel[t]) /\ sel[t].selectorsToCombine = <<"a", "+", "a">>
        /\ log[t] = << <<"id", "a">> >> /\ sel[t].value = "#a"
        /\ res.call = "stringify" /\ res.id = t /\ res.ret = "a + a"

\* C18: element or id called on a selector on which that kind already occurred
\* and which also holds a kind of strictly higher rank raises the
\* DuplicateSelectorPart error, not OrderViolation: the occurrence check runs first.
C18_DuplicateBeforeOrder ==
    /\ \A t \in Objects : \A kind \in {"element", "id"} : \A value \in Values(kind) :
         (Occurs(kind, log[t]) /\ HigherPresent(kind, log[t]))
         => /\ handleNumberOfOccurances(sel[t], kind) = DuplicateSelectorPart
            /\ checkSelectorsOrder(sel[t], kind) = OrderViolation
            /\ invoke(kind, sel[t], value).thrown = DuplicateSelectorPart
    /\ ( /\ res.via = "method" /\ res.call \in {"element", "id"}
         /\ Occurs(res.call, log[res.id]) /\ HigherPresent(res.call, log[res.id]) )
         => res.thrown = DuplicateSelectorPart

\* element, class, element: the second element raised the duplicate error
C18_Witness ==
    /\ res.via = "method" /\ res.call = "element" /\ res.thrown = DuplicateSelectorPart
    /\ KindsOf(log[res.id]) = <<"element", "class">>
====
